---- MODULE Spec2Model ----
(***************************************************************************)
(* Model of poincare/src/derivative.cpp: DerivativeNode, the numerical     *)
(* derivative diff(f, x, a) computed by Ridders' extrapolation inside an   *)
(* adaptive step search, and its polynomial-degree rule.                   *)
(*                                                                         *)
(* The scalar type T is modelled by a small radix-10 floating-point format *)
(* with Digits significant digits, gradual underflow, overflow to          *)
(* infinity, NaN, and round-to-nearest-even on every operation.  A scalar  *)
(* is a record [k, m, e]: k = "fin" stands for m * 10^e, k = "inf" for an  *)
(* infinity of sign m, k = "nan" for NaN.  Zero carries no sign.           *)
(***************************************************************************)
EXTENDS Integers, Sequences, FiniteSets, TLC

\* Significand width of T, in decimal digits (scaled down from DBL_MANT_DIG).
Digits == 3
\* Smallest and largest exponent of a finite scalar m * 10^e.
MinExp == -9
MaxExp == 9

RECURSIVE Pow10(_)
Pow10(n) == IF n = 0 THEN 1 ELSE 10 * Pow10(n - 1)

RECURSIVE NumDigits(_)
NumDigits(n) == IF n < 10 THEN 1 ELSE 1 + NumDigits(n \div 10)

IntAbs(n) == IF n < 0 THEN -n ELSE n
IntSign(n) == IF n < 0 THEN -1 ELSE 1
IntMin(p, q) == IF p < q THEN p ELSE q

NaN == [k |-> "nan", m |-> 0, e |-> 0]
Inf(s) == [k |-> "inf", m |-> s, e |-> 0]
Zero == [k |-> "fin", m |-> 0, e |-> 0]

\* s * n * 10^e with n already rounded to at most Digits digits (or to
\* 10^Digits, after a carry), e >= MinExp.
Pack(s, n, e) ==
  IF n = 0 THEN Zero
  ELSE LET n1 == IF n = Pow10(Digits) THEN Pow10(Digits - 1) ELSE n
           e1 == IF n = Pow10(Digits) THEN e + 1 ELSE e
       IN IF e1 > MaxExp THEN Inf(s) ELSE [k |-> "fin", m |-> s * n1, e |-> e1]

\* The scalar nearest to s * (n + d) * 10^e, where n >= 0 and 0 <= d < 1 with
\* d > 0 exactly if sticky; ties go to the even significand.
Round(s, n, e, sticky) ==
  IF n = 0 THEN Zero
  ELSE LET d == NumDigits(n)
           k0 == IF d > Digits THEN d - Digits ELSE 0
           k == IF e + k0 < MinExp THEN MinExp - e ELSE k0
       IN IF k = 0
          THEN LET t == IntMin(Digits - d, e - MinExp)
               IN Pack(s, n * Pow10(t), e - t)
          ELSE IF k > d THEN Zero
          ELSE LET p == Pow10(k)
                   q == n \div p
                   r == n % p
                   half == 5 * Pow10(k - 1)
                   up == r > half \/ (r = half /\ (sticky \/ q % 2 = 1))
               IN Pack(s, IF up THEN q + 1 ELSE q, e + k)

\* The scalar nearest to the decimal m * 10^e.
Dec(m, e) == Round(IntSign(m), IntAbs(m), e, FALSE)

IsNaN(a) == a.k = "nan"
IsInf(a) == a.k = "inf"
IsFin(a) == a.k = "fin"
IsZero(a) == a.k = "fin" /\ a.m = 0

Neg(a) == IF a.k = "nan" THEN a ELSE [a EXCEPT !.m = -a.m]
Abs(a) == IF a.k = "nan" THEN a ELSE [a EXCEPT !.m = IntAbs(a.m)]

Add(a, b) ==
  IF IsNaN(a) \/ IsNaN(b) THEN NaN
  ELSE IF IsInf(a) /\ IsInf(b) THEN (IF a.m = b.m THEN a ELSE NaN)
  ELSE IF IsInf(a) THEN a
  ELSE IF IsInf(b) THEN b
  ELSE IF a.m = 0 THEN b
  ELSE IF b.m = 0 THEN a
  ELSE LET hi == IF a.e >= b.e THEN a ELSE b
           lo == IF a.e >= b.e THEN b ELSE a
           d == hi.e - lo.e
       IN IF d > Digits + 1 THEN hi
          ELSE LET n == hi.m * Pow10(d) + lo.m
               IN Round(IntSign(n), IntAbs(n), lo.e, FALSE)

Sub(a, b) == Add(a, Neg(b))

Mul(a, b) ==
  IF IsNaN(a) \/ IsNaN(b) THEN NaN
  ELSE IF IsInf(a) \/ IsInf(b)
       THEN (IF a.m = 0 \/ b.m = 0 THEN NaN ELSE Inf(IntSign(a.m) * IntSign(b.m)))
  ELSE Round(IntSign(a.m) * IntSign(b.m), IntAbs(a.m) * IntAbs(b.m), a.e + b.e, FALSE)

Div(a, b) ==
  IF IsNaN(a) \/ IsNaN(b) THEN NaN
  ELSE IF IsInf(a) THEN (IF IsInf(b) THEN NaN ELSE Inf(a.m * IntSign(b.m)))
  ELSE IF IsInf(b) THEN Zero
  ELSE IF b.m = 0 THEN (IF a.m = 0 THEN NaN ELSE Inf(IntSign(a.m)))
  ELSE IF a.m = 0 THEN Zero
  ELSE LET t == 2 * Digits + 1 - NumDigits(IntAbs(a.m))
           na == IntAbs(a.m) * Pow10(t)
           nb == IntAbs(b.m)
       IN Round(IntSign(a.m) * IntSign(b.m), na \div nb, a.e - t - b.e, na % nb # 0)

\* Comparisons of C: every comparison with a NaN is false.
Lt(a, b) == ~IsNaN(a) /\ ~IsNaN(b) /\ a # b /\ Sub(a, b).m < 0
Gt(a, b) == Lt(b, a)
Le(a, b) == ~IsNaN(a) /\ ~IsNaN(b) /\ (a = b \/ Lt(a, b))
Ge(a, b) == Le(b, a)

\* std::round: to the nearest integer, halves away from zero.
RoundInt(a) ==
  IF ~IsFin(a) \/ a.e >= 0 THEN a
  ELSE LET k == -a.e
           n == IntAbs(a.m)
       IN IF k > Digits THEN Zero
          ELSE LET p == Pow10(k)
                   q == n \div p
                   r == n % p
               IN Dec(IntSign(a.m) * (IF 2 * r >= p THEN q + 1 ELSE q), 0)

\* pow((T)10, floor(log10(v)) + 2) for v >= 0.
DecadeAbove(v) ==
  IF IsNaN(v) THEN NaN
  ELSE IF IsInf(v) THEN Inf(1)
  ELSE IF v.m = 0 THEN Zero
  ELSE Dec(1, v.e + NumDigits(v.m) - 1 + 2)

one == Dec(1, 0)
two == Dec(2, 0)
ten == Dec(1, 1)

\* DBL_MIN / FLT_MIN, DBL_EPSILON / FLT_EPSILON, DBL_MAX / FLT_MAX of the format.
min == Dec(1, MinExp + Digits - 1)
epsilon == Dec(1, 1 - Digits)
MaxScalar == Dec(Pow10(Digits) - 1, MaxExp)

\* Constants of class Derivative (declared in poincare/derivative.h).
k_maxErrorRateOnApproximation == Dec(1, -1)
k_minInitialRate == Dec(1, 0)
k_rateStepSize == Dec(2, 0)

\* Bounds of the model.
MaxCalls == 2
MaxDegree == 1

\* Symbols a context binds, polynomial degrees a child may report (-1: unknown).
Symbols == {"x", "a"}
Degrees == -1..MaxDegree

\* Function bodies (child 0) and evaluation-point expressions (child 2) tried.
Bodies == {"undef", "const", "x", "ax", "x2", "x3", "inv", "abs"}
Points == {"undef", "zero", "one", "p7", "big", "x"}
\* Bindings a context may hold for a symbol; NaN stands for an unbound symbol.
Bindings == {NaN, Dec(3, 0)}
Contexts == [Symbols -> Bindings]

VARIABLES
  body, point, ctx,            \* children 0 and 2, and the caller's context
  pc,                          \* position in templatedApproximate / riddersApproximation
  calls, results, ctxBefore,   \* approximations completed, their results, context at entry
  x, functionValue, h, error, result,   \* locals of templatedApproximate
  hh, a, ans, errt, i, j, fac,          \* locals of riddersApproximation
  hs,          \* steps h passed to riddersApproximation in this approximation
  outs,        \* (error, result) left by each engine invocation of this approximation
  rateSteps,   \* steps passed to growthRateAroundAbscissa in this engine invocation
  trail,       \* entries compared in this engine invocation, in order
  ansAt,       \* indices <<j, i>> of the entry recorded as ans (<<0, 0>>: none)
  derived,     \* cells <<j, i>> computed from growth-rate estimates alone
  childDegree, \* polynomialDegree of each child, per symbol name
  degree       \* last answer of polynomialDegree

vars == <<body, point, ctx, pc, calls, results, ctxBefore, x, functionValue, h,
          error, result, hh, a, ans, errt, i, j, fac, hs, outs, rateSteps,
          trail, ansAt, derived, childDegree, degree>>

\* childAtIndex(2)->approximate(T(), context, angleUnit).toScalar()
EvalPoint(p, c) ==
  CASE p = "undef" -> NaN
    [] p = "zero" -> Zero
    [] p = "one" -> one
    [] p = "p7" -> Dec(7, -1)
    [] p = "big" -> Dec(1, Digits)
    [] p = "x" -> c["x"]

\* Approximation of the function body in a context.
EvalBody(b, c) ==
  CASE b = "undef" -> NaN
    [] b = "const" -> Dec(5, 0)
    [] b = "x" -> c["x"]
    [] b = "ax" -> Mul(c["a"], c["x"])
    [] b = "x2" -> Mul(c["x"], c["x"])
    [] b = "x3" -> Mul(Mul(c["x"], c["x"]), c["x"])
    [] b = "inv" -> Div(one, c["x"])
    [] b = "abs" -> Abs(c["x"])

\* Expression::approximateWithValueForSymbol: the body's value with the
\* symbol bound to v for the time of the evaluation, and the caller's context
\* afterwards.
approximateWithValueForSymbol(b, v, c) ==
  [value |-> EvalBody(b, [c EXCEPT !["x"] = v]), context |-> c]

approximateWithArgument(v, c) == approximateWithValueForSymbol(body, v, c)

growthRateAroundAbscissa(xv, hv, c) ==
  LET plus == approximateWithArgument(Add(xv, hv), c)
      minus == approximateWithArgument(Sub(xv, hv), plus.context)
  IN [value |-> Div(Sub(plus.value, minus.value), Mul(two, hv)),
      context |-> minus.context]

\* volatile T temp = x + h; hh = temp - x
Snap(xv, hv) == Sub(Add(xv, hv), xv)

\* Mutant: only the evaluation point is tested.
UndefinedInput_pointOnly(arg, fv) == IsNaN(arg)

UndefinedInput(arg, fv) == IsNaN(arg) \/ IsNaN(fv)

\* Mutant: h keeps its value between approximations (a static local).
InitialStep_static == IF calls = 0 THEN k_minInitialRate ELSE h

InitialStep == k_minInitialRate

NextStep(hv) == Div(hv, ten)

\* Mutant: a ratio that is not known to be small counts as too big.
ErrorTooBig_notSmall(err, res) ==
  ~Le(Abs(Div(err, res)), k_maxErrorRateOnApproximation) \/ IsNaN(err)

ErrorTooBig(err, res) ==
  Gt(Abs(Div(err, res)), k_maxErrorRateOnApproximation) \/ IsNaN(err)

\* Mutant: the test against epsilon is left out.
ContinueSearch_noEpsilon(err, res, hv) == ErrorTooBig(err, res)

\* Mutant: || for &&.
ContinueSearch_or(err, res, hv) == ErrorTooBig(err, res) \/ Ge(hv, epsilon)

ContinueSearch(err, res, hv) == ErrorTooBig(err, res) /\ Ge(hv, epsilon)

\* Lines 66-73: the value returned once the search has stopped.
Rounded(err, res) ==
  IF ErrorTooBig(err, res) THEN NaN
  ELSE IF Lt(Abs(err), min) THEN res
  ELSE LET e2 == DecadeAbove(Abs(err))
       IN Mul(RoundInt(Div(res, e2)), e2)

Extrapolate(hi, lo, f) == Div(Sub(Mul(hi, f), lo), Sub(f, one))

Discrepancy(new, hi, lo) ==
  IF Gt(Abs(Sub(new, hi)), Abs(Sub(new, lo)))
  THEN Abs(Sub(new, hi)) ELSE Abs(Sub(new, lo))

\* Mutant: <= for <.
ErrorDecreases_orEqual(et, err) == Le(et, err)

ErrorDecreases(et, err) == Lt(et, err)

\* Mutant: >= for >.
Diverges_orEqual(tab, n, err) ==
  Ge(Abs(Sub(tab[n][n], tab[n - 1][n - 1])), Mul(two, err))

Diverges(tab, n, err) ==
  Gt(Abs(Sub(tab[n][n], tab[n - 1][n - 1])), Mul(two, err))

\* ExpressionNode::polynomialDegree, the generic default: unknown.
UnknownDegree == -1
ExpressionNode_polynomialDegree(cd, symbolName) == UnknownDegree

\* Mutant: || for &&.
polynomialDegree_any(cd, symbolName) ==
  IF cd[0][symbolName] = 0 \/ cd[1][symbolName] = 0 \/ cd[2][symbolName] = 0
  THEN 0
  ELSE ExpressionNode_polynomialDegree(cd, symbolName)

\* DerivativeNode::polynomialDegree
polynomialDegree(cd, symbolName) ==
  IF cd[0][symbolName] = 0 /\ cd[1][symbolName] = 0 /\ cd[2][symbolName] = 0
  THEN 0
  ELSE ExpressionNode_polynomialDegree(cd, symbolName)

Filler == [r \in 0..9 |-> [c \in 0..9 |-> one]]

Init ==
  /\ body \in Bodies
  /\ point \in Points
  /\ ctx \in Contexts
  /\ pc = "idle"
  /\ calls = 0
  /\ results = <<>>
  /\ ctxBefore = ctx
  /\ x = Zero /\ functionValue = Zero /\ h = Zero /\ error = Zero /\ result = Zero
  /\ hh = Zero /\ a = Filler /\ ans = Zero /\ errt = Zero
  /\ i = 0 /\ j = 0 /\ fac = Zero
  /\ hs = <<>> /\ outs = <<>> /\ rateSteps = <<>> /\ trail = <<>>
  /\ ansAt = <<0, 0>>
  /\ derived = {}
  /\ childDegree = [c \in 0..2 |-> [s \in Symbols |-> 0]]
  /\ degree = [symbol |-> "", value |-> 0]

\* templatedApproximate, lines 50-56: an undefined evaluation point or function value.
ApproximateUndefined ==
  /\ pc = "idle" /\ calls < MaxCalls
  /\ LET arg == EvalPoint(point, ctx)
         fv == approximateWithArgument(arg, ctx)
     IN /\ UndefinedInput(arg, fv.value)
        /\ x' = arg
        /\ functionValue' = fv.value
        /\ ctx' = fv.context
  /\ ctxBefore' = ctx
  /\ results' = Append(results, NaN)
  /\ calls' = calls + 1
  /\ hs' = <<>> /\ outs' = <<>> /\ rateSteps' = <<>> /\ trail' = <<>>
  /\ UNCHANGED <<body, point, pc, h, error, result, hh, a, ans, errt, i, j, fac, ansAt,
                 derived, childDegree, degree>>

\* templatedApproximate, lines 50-59: the guard passes, the search starts.
ApproximateBegin ==
  /\ pc = "idle" /\ calls < MaxCalls
  /\ LET arg == EvalPoint(point, ctx)
         fv == approximateWithArgument(arg, ctx)
     IN /\ ~UndefinedInput(arg, fv.value)
        /\ x' = arg
        /\ functionValue' = fv.value
        /\ ctx' = fv.context
  /\ ctxBefore' = ctx
  /\ h' = InitialStep
  /\ pc' = "search"
  /\ hs' = <<>> /\ outs' = <<>> /\ rateSteps' = <<>> /\ trail' = <<>>
  /\ UNCHANGED <<body, point, calls, results, error, result, hh, a, ans, errt, i, j, fac, ansAt,
                 derived, childDegree, degree>>

\* riddersApproximation, lines 96-111.
RiddersBegin ==
  /\ pc = "search"
  /\ LET s == Snap(x, h)
         g == growthRateAroundAbscissa(x, s, ctx)
     IN /\ hh' = s
        /\ a' = [Filler EXCEPT ![0][0] = g.value]
        /\ ctx' = g.context
        /\ rateSteps' = <<s>>
        /\ derived' = {<<0, 0>>}
  /\ error' = MaxScalar
  /\ ans' = Zero /\ errt' = Zero
  /\ i' = 1
  /\ pc' = "gen"
  /\ hs' = Append(hs, h)
  /\ trail' = <<>>
  /\ ansAt' = <<0, 0>>
  /\ UNCHANGED <<body, point, calls, results, ctxBefore, x, functionValue, h, result, j, fac,
                 outs, childDegree, degree>>

\* riddersApproximation, lines 113-119: generation i gets its growth rate.
Generation ==
  /\ pc = "gen"
  /\ LET s == Snap(x, Div(hh, k_rateStepSize))
         g == growthRateAroundAbscissa(x, s, ctx)
     IN /\ hh' = s
        /\ a' = [a EXCEPT ![0][i] = g.value]
        /\ ctx' = g.context
        /\ rateSteps' = Append(rateSteps, s)
        /\ derived' = derived \cup {<<0, i>>}
  /\ fac' = Mul(k_rateStepSize, k_rateStepSize)
  /\ j' = 1
  /\ pc' = "order"
  /\ UNCHANGED <<body, point, calls, results, ctxBefore, x, functionValue, h, error,
                 result, ans, errt, i, hs, outs, trail, ansAt, childDegree, degree>>

\* riddersApproximation, lines 121-130: one pass of the loop on j.
Order ==
  /\ pc = "order" /\ j < 10
  /\ LET new == Extrapolate(a[j - 1][i], a[j - 1][i - 1], fac)
         et == Discrepancy(new, a[j - 1][i], a[j - 1][i - 1])
     IN /\ a' = [a EXCEPT ![j][i] = new]
        /\ errt' = et
        /\ derived' = IF <<j - 1, i>> \in derived /\ <<j - 1, i - 1>> \in derived
                      THEN derived \cup {<<j, i>>} ELSE derived
        /\ trail' = Append(trail, [j |-> j, i |-> i, entry |-> new,
                                   hi |-> a[j - 1][i], lo |-> a[j - 1][i - 1]])
        /\ IF ErrorDecreases(et, error)
           THEN error' = et /\ ans' = new /\ ansAt' = <<j, i>>
           ELSE UNCHANGED <<error, ans, ansAt>>
  /\ fac' = Mul(Mul(k_rateStepSize, k_rateStepSize), fac)
  /\ j' = j + 1
  /\ UNCHANGED <<body, point, ctx, pc, calls, results, ctxBefore, x, functionValue, h,
                 result, hh, i, hs, outs, rateSteps, childDegree, degree>>

\* riddersApproximation, lines 131-136: the early exit, or the next generation.
EndGeneration ==
  /\ pc = "order" /\ j = 10
  /\ IF Diverges(a, i, error)
     THEN pc' = "test" /\ i' = i
     ELSE i' = i + 1 /\ pc' = (IF i + 1 < 10 THEN "gen" ELSE "test")
  /\ UNCHANGED <<body, point, ctx, calls, results, ctxBefore, x, functionValue, h, error,
                 result, hh, a, ans, errt, j, fac, hs, outs, rateSteps, trail, ansAt,
                 derived, childDegree, degree>>

\* templatedApproximate, lines 61-63: the engine has returned ans.
LoopTest ==
  /\ pc = "test"
  /\ result' = ans
  /\ h' = NextStep(h)
  /\ outs' = Append(outs, [error |-> error, result |-> ans])
  /\ pc' = (IF ContinueSearch(error, ans, NextStep(h)) THEN "search" ELSE "exit")
  /\ UNCHANGED <<body, point, ctx, calls, results, ctxBefore, x, functionValue, error,
                 hh, a, ans, errt, i, j, fac, hs, rateSteps, trail, ansAt,
                 derived, childDegree, degree>>

\* templatedApproximate, lines 65-73.
Return ==
  /\ pc = "exit"
  /\ results' = Append(results, Rounded(error, result))
  /\ calls' = calls + 1
  /\ pc' = "idle"
  /\ UNCHANGED <<body, point, ctx, ctxBefore, x, functionValue, h, error, result,
                 hh, a, ans, errt, i, j, fac, hs, outs, rateSteps, trail, ansAt,
                 derived, childDegree, degree>>

Next ==
  \/ ApproximateUndefined
  \/ ApproximateBegin
  \/ RiddersBegin
  \/ Generation
  \/ Order
  \/ EndGeneration
  \/ LoopTest
  \/ Return

Spec == Init /\ [][Next]_vars

(***************************************************************************)
(* Degree inference, on its own: the children's degrees are the inputs.    *)
(***************************************************************************)
InitDegree ==
  /\ body = "const" /\ point = "zero" /\ ctx = [s \in Symbols |-> NaN]
  /\ pc = "idle"
  /\ calls = 0
  /\ results = <<>>
  /\ ctxBefore = ctx
  /\ x = Zero /\ functionValue = Zero /\ h = Zero /\ error = Zero /\ result = Zero
  /\ hh = Zero /\ a = Filler /\ ans = Zero /\ errt = Zero
  /\ i = 0 /\ j = 0 /\ fac = Zero
  /\ hs = <<>> /\ outs = <<>> /\ rateSteps = <<>> /\ trail = <<>>
  /\ ansAt = <<0, 0>>
  /\ derived = {}
  /\ childDegree \in [0..2 -> [Symbols -> Degrees]]
  /\ degree = [symbol |-> "", value |-> 0]

PolynomialDegree ==
  /\ \E symbolName \in Symbols :
       degree' = [symbol |-> symbolName,
                  value |-> polynomialDegree(childDegree, symbolName)]
  /\ UNCHANGED <<body, point, ctx, pc, calls, results, ctxBefore, x, functionValue, h,
                 error, result, hh, a, ans, errt, i, j, fac, hs, outs, rateSteps,
                 trail, ansAt, derived, childDegree>>

NextDegree == PolynomialDegree

SpecDegree == InitDegree /\ [][NextDegree]_vars

(***************************************************************************)
(* The claims.                                                             *)
(***************************************************************************)
Finished == pc = "idle" /\ calls > 0
Returned == results[calls]
InEngine == pc \in {"gen", "order", "test"}
\* |error / result| <= k_maxErrorRateOnApproximation with error not NaN.
Acceptable(o) ==
  Le(Abs(Div(o.error, o.result)), k_maxErrorRateOnApproximation) /\ ~IsNaN(o.error)

\* C1: when the evaluation point or the function value at it is NaN, the
\* approximation returns NaN at once: riddersApproximation and
\* growthRateAroundAbscissa are not invoked in that run.
C1_UndefinedPropagation ==
  (IsNaN(x) \/ IsNaN(functionValue)) =>
    /\ pc = "idle"
    /\ hs = <<>> /\ rateSteps = <<>> /\ outs = <<>>
    /\ calls > 0 => IsNaN(Returned)

C1_Witness == Finished /\ ~IsNaN(x) /\ IsNaN(functionValue) /\ IsNaN(Returned)

\* The decimal steps h, h/10, h/100, ... that are not below epsilon.
RECURSIVE Decades(_)
Decades(hv) == IF Ge(hv, epsilon) THEN 1 + Decades(Div(hv, ten)) ELSE 0

\* Steps of one engine invocation (9 generations of 1 + 9 + 1 steps, its
\* begin, its return) and of one approximation, with room to spare.
EngineSpan == 9 * 11 + 4
CallSpan == (Decades(k_minInitialRate) + 1) * EngineSpan

\* How far the current approximation has come.
Position ==
  CASE pc = "idle" -> 0
    [] pc = "search" -> Len(outs) * EngineSpan + 1
    [] pc = "gen" -> Len(outs) * EngineSpan + (i - 1) * 11 + 2
    [] pc = "order" -> Len(outs) * EngineSpan + (i - 1) * 11 + 2 + j
    [] pc = "test" -> Len(outs) * EngineSpan + 102
    [] pc = "exit" -> Len(outs) * EngineSpan + 1

C2_Bounds ==
  /\ Len(hs) <= Decades(k_minInitialRate)
  /\ Len(rateSteps) <= 10
  /\ i <= 10 /\ j <= 10
  /\ Position < CallSpan

\* C2: the step search terminates: it invokes the engine at most once per
\* decimal order between k_minInitialRate and epsilon, an engine invocation
\* runs at most 10 step-size generations, and every step of an approximation
\* takes it strictly further towards its return.
C2_Termination ==
  []C2_Bounds /\ [][calls' * CallSpan + Position' > calls * CallSpan + Position]_vars

C2_Witness ==
  /\ pc = "exit"
  /\ Len(hs) = Decades(k_minInitialRate)
  /\ Len(hs) >= 2
  /\ \A k \in 1..Len(outs) : ~Acceptable(outs[k])

\* C3, as claimed: a defined value is returned only if the last engine
\* invocation left |error / result| <= k_maxErrorRateOnApproximation.
C3_Original ==
  (Finished /\ ~IsNaN(Returned)) =>
    outs # <<>> /\ Le(Abs(Div(error, result)), k_maxErrorRateOnApproximation)

\* C3, amended: a defined value is returned only if the last engine invocation
\* left |error / result| <= k_maxErrorRateOnApproximation, or left result = 0
\* with error = 0, and in that case the value returned is 0.
C3_Acceptance ==
  Finished =>
    /\ ~IsNaN(Returned) =>
         /\ outs # <<>>
         /\ \/ Le(Abs(Div(error, result)), k_maxErrorRateOnApproximation)
            \/ IsZero(error) /\ IsZero(result)
    /\ (outs # <<>> /\ IsZero(error) /\ IsZero(result)) => Returned = Zero

C3_Witness ==
  Finished /\ outs # <<>> /\ IsZero(error) /\ IsZero(result) /\ Returned = Zero

\* C4: polynomialDegree answers 0 exactly if all three children have degree 0
\* in the symbol; otherwise it answers the generic unknown degree, never 0.
C4_DegreeInference ==
  degree.symbol # "" =>
    LET allZero == \A c \in 0..2 : childDegree[c][degree.symbol] = 0
    IN /\ degree.value = 0 <=> allZero
       /\ ~allZero => degree.value = UnknownDegree

C4_Witness ==
  /\ degree.symbol = "x"
  /\ degree.value = UnknownDegree
  /\ childDegree[0]["x"] = 1 /\ childDegree[1]["x"] = 0 /\ childDegree[2]["x"] = 0

\* C5: consecutive approximations of the same node in the same context return
\* the same value, and each leaves the context as it found it.
C5_NoAccumulatedState ==
  /\ \A k \in 1..(Len(results) - 1) : results[k] = results[k + 1]
  /\ pc = "idle" => ctx = ctxBefore

C5_Witness ==
  /\ Finished /\ calls >= 2
  /\ Len(outs) >= 2
  /\ ~IsNaN(Returned)
  /\ ctx = ctxBefore

RECURSIVE StepAt(_)
StepAt(k) == IF k = 1 THEN k_minInitialRate ELSE Div(StepAt(k - 1), ten)

\* C6: past the guard the engine is invoked at least once, with the steps
\* k_minInitialRate, k_minInitialRate/10, ... in that order; no invocation
\* follows one whose relative error is acceptable, and the value returned is
\* computed from the last invocation's result and error.
C6_SearchOrder ==
  /\ pc \in {"gen", "order", "test", "exit"} => Len(hs) >= 1
  /\ (Finished /\ ~IsNaN(x) /\ ~IsNaN(functionValue)) => Len(hs) >= 1
  /\ \A k \in 1..Len(hs) : hs[k] = StepAt(k)
  /\ \A k \in 1..Len(outs) : k < Len(hs) => ~Acceptable(outs[k])
  /\ (Finished /\ outs # <<>>) =>
       /\ Len(outs) = Len(hs)
       /\ Returned = Rounded(outs[Len(outs)].error, outs[Len(outs)].result)

C6_Witness ==
  /\ Finished
  /\ Len(outs) >= 2
  /\ Acceptable(outs[Len(outs)])
  /\ ~IsNaN(Returned)

\* C7, as claimed: the entry recorded as the answer (and whose discrepancy
\* became the error) is computed from growth-rate estimates alone, never from
\* a cell still holding the filler value 1; entries are compared for orders
\* j <= i only.
C7_FillerInert ==
  /\ ansAt # <<0, 0>> => ansAt \in derived
  /\ ansAt[1] <= ansAt[2]

\* max(|a[j][i] - a[j-1][i]|, |a[j][i] - a[j-1][i-1]|) of a compared entry.
Disc(t) ==
  LET p == Abs(Sub(t.entry, t.hi))
      q == Abs(Sub(t.entry, t.lo))
  IN IF Ge(p, q) THEN p ELSE q

\* What the engine holds matches the trail of compared entries.
BestOfTrail ==
  LET d == [k \in 1..Len(trail) |-> Disc(trail[k])]
      below == {k \in 1..Len(trail) : Lt(d[k], MaxScalar)}
  IN IF below = {}
     THEN error = MaxScalar /\ ans = Zero
     ELSE \E k \in below :
            /\ \A m \in below : Le(d[k], d[m])
            /\ \A m \in below : m < k => Lt(d[k], d[m])
            /\ error = d[k]
            /\ ans = trail[k].entry

C8_Invariant ==
  /\ InEngine => ~IsNaN(error) /\ Ge(error, Zero)
  /\ pc = "test" => BestOfTrail

C8_Step == (InEngine /\ InEngine') => Le(error', error)

\* C8: within an engine invocation the error never increases and is never NaN
\* or negative; on return it is the least discrepancy of the entries compared,
\* the answer is the entry that first attained it, and with no discrepancy
\* below the initial maximum the answer is 0 and the error the largest finite
\* scalar.
C8_BestEstimate == []C8_Invariant /\ [][C8_Step]_vars

C8_Witness ==
  /\ pc = "test"
  /\ Gt(error, Zero) /\ Lt(error, MaxScalar)
  /\ ansAt[2] >= 2
  /\ Len(trail) >= 18

Exceeds(n) == Gt(Abs(Sub(a[n][n], a[n - 1][n - 1])), Mul(two, error))

\* C9: the generation loop goes on to generation i + 1 exactly if
\* |a[i][i] - a[i-1][i-1]| <= 2 * error (or the comparison is unordered) and
\* i < 9; once it stops, the growth rate has been evaluated once per
\* generation run and no more, and the invocation hands back the answer and
\* error recorded so far.
C9_EarlyExit ==
  /\ (pc = "gen" /\ i >= 2) => ~Exceeds(i - 1)
  /\ pc = "test" =>
       /\ (i <= 9 /\ Exceeds(i)) \/ (i = 10 /\ ~Exceeds(9))
       /\ Len(rateSteps) = (IF i = 10 THEN 9 ELSE i) + 1
  /\ (pc \in {"search", "exit"} /\ outs # <<>>) =>
       /\ Len(rateSteps) = (IF i = 10 THEN 9 ELSE i) + 1
       /\ result = ans
       /\ outs[Len(outs)] = [error |-> error, result |-> ans]

C9_Witness == pc = "test" /\ i >= 2 /\ i < 9 /\ Exceeds(i)

\* C10, as claimed: every step passed to riddersApproximation and every step
\* passed to growthRateAroundAbscissa is nonzero.
C10_NonzeroSteps ==
  /\ \A k \in 1..Len(hs) : ~IsZero(hs[k])
  /\ \A k \in 1..Len(rateSteps) : ~IsZero(rateSteps[k])

====
